---- MODULE Spec2Model ----
(***************************************************************************)
(* StreamRouteCollection (audio_route_manager/StreamRouteCollection.hpp):  *)
(* the registry of stream routes, the per-direction ordered stream lists   *)
(* and the per-direction RouteMasks aggregator, with the operations that   *)
(* act on them.  The engine is single threaded; every operation is one     *)
(* atomic action.                                                          *)
(***************************************************************************)
EXTENDS Integers, Sequences, FiniteSets, TLC

(***************************************************************************)
(* Bounds of the model.                                                    *)
(***************************************************************************)
\* longest stream list a direction may hold (addStream is refused beyond it)
MaxListLen == 2
\* number of operations in a run
MaxOps == 6

(***************************************************************************)
(* Bit operations on the uint32_t fields of RouteMasks.                    *)
(***************************************************************************)
RECURSIVE BitOr(_, _)
BitOr(a, b) ==
    IF a = 0 THEN b
    ELSE IF b = 0 THEN a
    ELSE (IF (a % 2 = 1) \/ (b % 2 = 1) THEN 1 ELSE 0) + 2 * BitOr(a \div 2, b \div 2)

\* a & ~b on uint32_t
RECURSIVE BitAndNot(_, _)
BitAndNot(a, b) ==
    IF a = 0 THEN 0
    ELSE (IF (a % 2 = 1) /\ (b % 2 = 0) THEN 1 ELSE 0) + 2 * BitAndNot(a \div 2, b \div 2)

RECURSIVE BitAnd(_, _)
BitAnd(a, b) ==
    IF a = 0 \/ b = 0 THEN 0
    ELSE (IF (a % 2 = 1) /\ (b % 2 = 1) THEN 1 ELSE 0) + 2 * BitAnd(a \div 2, b \div 2)

(***************************************************************************)
(* Directions: mRoutes and mOrderedStreamList are indexed by isOut().      *)
(***************************************************************************)
Input == 0
Output == 1
Directions == {Input, Output}
DirOf(isOut) == IF isOut THEN Output ELSE Input

(***************************************************************************)
(* The route objects the environment can construct and hand to push_back.  *)
(* name, isOut, mask, the applicability flags and the supported devices    *)
(* are fixed at construction.  Routes 1 and 4 carry the same name and      *)
(* direction.                                                              *)
(***************************************************************************)
NoRoute == 0
RouteIds == 1 .. 4
RouteDef ==
    << [name |-> "A", isOut |-> TRUE,  mask |-> 1, applicable |-> {1, 2}, devices |-> 6],
       [name |-> "B", isOut |-> TRUE,  mask |-> 2, applicable |-> {1},    devices |-> 4],
       [name |-> "A", isOut |-> FALSE, mask |-> 1, applicable |-> {1},    devices |-> 1],
       [name |-> "A", isOut |-> TRUE,  mask |-> 4, applicable |-> {2},    devices |-> 2] >>

\* the key push_back builds
Key(r) == RouteDef[r].name \o (IF RouteDef[r].isOut THEN "_Playback" ELSE "_Capture")
\* the keys in std::map<std::string, ...> iteration order
KeyOrder == << "A_Capture", "A_Playback", "B_Playback" >>
Keys == {KeyOrder[i] : i \in 1 .. Len(KeyOrder)}

(***************************************************************************)
(* The streams of the audio I/O layer.  isOut, isDirect and the flags the  *)
(* route applicability is matched against are fixed per stream.            *)
(***************************************************************************)
NoStream == 0
StreamIds == 1 .. 3
StreamDef ==
    << [isOut |-> TRUE,  isDirect |-> FALSE, flags |-> 1],
       [isOut |-> TRUE,  isDirect |-> TRUE,  flags |-> 2],
       [isOut |-> FALSE, isDirect |-> FALSE, flags |-> 1],
       [isOut |-> TRUE,  isDirect |-> FALSE, flags |-> 1] >>

\* the streams of the stream list scenario: those of StreamIds and a second
\* non-direct output stream
ListStreamIds == 1 .. 4

VARIABLES
    registry,            \* the std::map: key -> route object (NoRoute: key absent)
    route,               \* per route object: used, previouslyUsed, needReflow, needRepath, newStream
    stream,              \* per stream: started, routedByPolicy, newRouteAvailable
    mOrderedStreamList,  \* per direction: the ordered list of streams
    mRoutes,             \* per direction: the RouteMasks
    calls,               \* the calls the last operation made on routes
    nOps                 \* number of operations run so far

vars == << registry, route, stream, mOrderedStreamList, mRoutes, calls, nOps >>

\* a route object as constructed
NewRoute == [used |-> FALSE, previouslyUsed |-> FALSE, needReflow |-> FALSE,
             needRepath |-> FALSE, newStream |-> NoStream]

\* RouteMasks::RouteMasks
RouteMasksInit == [needReflow |-> 0, needRepath |-> 0, enabled |-> 0, prevEnabled |-> 0]

Registered == {registry[k] : k \in Keys} \ {NoRoute}

\* the state of the collection and of the routes and streams it refers to
TypeOK ==
    /\ registry \in [Keys -> RouteIds \cup {NoRoute}]
    /\ \A k \in Keys : registry[k] # NoRoute => Key(registry[k]) = k
    /\ route \in [RouteIds -> [used : BOOLEAN, previouslyUsed : BOOLEAN,
                                needReflow : BOOLEAN, needRepath : BOOLEAN,
                                newStream : StreamIds \cup {NoStream}]]
    /\ stream \in [StreamIds -> [started : BOOLEAN, routedByPolicy : BOOLEAN,
                                  newRouteAvailable : BOOLEAN]]
    /\ \A d \in Directions :
        /\ mOrderedStreamList[d] \in Seq(StreamIds)
        /\ \A i \in 1 .. Len(mOrderedStreamList[d]) :
               DirOf(StreamDef[mOrderedStreamList[d][i]].isOut) = d
        /\ \A f \in {"needReflow", "needRepath", "enabled", "prevEnabled"} :
               \* uint32_t
               mRoutes[d][f] \in Nat /\ (mRoutes[d][f] \div 65536) \div 65536 = 0
    /\ nOps \in 0 .. MaxOps

Init ==
    /\ registry = [k \in Keys |-> NoRoute]
    /\ route = [r \in RouteIds |-> NewRoute]
    /\ stream = [s \in StreamIds |->
                    [started |-> TRUE, routedByPolicy |-> TRUE, newRouteAvailable |-> FALSE]]
    /\ mOrderedStreamList = [d \in Directions |-> << >>]
    /\ mRoutes = [d \in Directions |-> RouteMasksInit]
    /\ calls = << >>
    /\ nOps = 0

\* one more operation of the run
Step == nOps < MaxOps /\ nOps' = nOps + 1

(***************************************************************************)
(* The Route and Stream capabilities the collection consumes.              *)
(***************************************************************************)
\* AudioStreamRoute::isMatchingWithStream: same direction and the stream's
\* flags are among those the route is applicable for
IsMatchingWithStream(r, s) ==
    /\ StreamDef[s].isOut = RouteDef[r].isOut
    /\ StreamDef[s].flags \in RouteDef[r].applicable

\* AudioStreamRoute::setStream: refuses a stream of the other direction,
\* otherwise records the stream as the route's new stream and the route as
\* the stream's new route
SetStream(rt, st, r, s) ==
    IF StreamDef[s].isOut # RouteDef[r].isOut
    THEN [ok |-> FALSE, route |-> rt, stream |-> st]
    ELSE [ok |-> TRUE,
          route |-> [rt EXCEPT ![r].newStream = s],
          stream |-> [st EXCEPT ![s].newRouteAvailable = TRUE]]

\* AudioStreamRoute::resetAvailability: releases the new stream, then
\* previouslyUsed takes the value of used and used is cleared
RouteResetAvailability(rt, st, r) ==
    [route |-> [rt EXCEPT ![r].previouslyUsed = rt[r].used,
                          ![r].used = FALSE,
                          ![r].newStream = NoStream],
     stream |-> IF rt[r].newStream = NoStream THEN st
                ELSE [st EXCEPT ![rt[r].newStream].newRouteAvailable = FALSE]]

(***************************************************************************)
(* RouteMasks.                                                             *)
(***************************************************************************)
\* setBit that takes its argument for a bit position
SetBitShifts(index, mask) == BitOr(mask, 2 ^ index)

SetBit(index, mask) == BitOr(mask, index)
SetEnabledRoute(m, index) == [m EXCEPT !.enabled = SetBit(index, m.enabled)]
SetNeedReflowRoute(m, index) == [m EXCEPT !.needReflow = SetBit(index, m.needReflow)]

\* setNeedRepathRoute that records nothing
SetNeedRepathRouteIgnored(m, index) == m

SetNeedRepathRoute(m, index) == [m EXCEPT !.needRepath = SetBit(index, m.needRepath)]

MasksRoutingHasChanged(m) ==
    \/ m.prevEnabled # m.enabled
    \/ m.needReflow # 0
    \/ m.needRepath # 0

\* RouteMasks::reset without the snapshot of enabled
MasksResetKeepsPrev(m) ==
    [prevEnabled |-> m.prevEnabled, enabled |-> 0, needReflow |-> 0, needRepath |-> 0]

\* RouteMasks::reset that leaves enabled as it is
MasksResetKeepsEnabled(m) ==
    [prevEnabled |-> m.enabled, enabled |-> m.enabled, needReflow |-> 0, needRepath |-> 0]

\* RouteMasks::reset that leaves needRepath as it is
MasksResetKeepsRepath(m) ==
    [prevEnabled |-> m.enabled, enabled |-> 0, needReflow |-> 0, needRepath |-> m.needRepath]

MasksReset(m) ==
    [prevEnabled |-> m.enabled, enabled |-> 0, needReflow |-> 0, needRepath |-> 0]

MasksUnmutedRoutes(m) == BitAndNot(BitAnd(m.prevEnabled, m.enabled), m.needReflow)
\* routesToMute without the routes that left the enabled set
MasksRoutesToMuteReflowOnly(m) == m.needReflow

MasksRoutesToMute(m) == BitOr(BitAndNot(m.prevEnabled, m.enabled), m.needReflow)
MasksOpenedRoutes(m) == BitAndNot(BitAnd(m.prevEnabled, m.enabled), m.needRepath)
\* routesToDisable without the routes that left the enabled set
MasksRoutesToDisableRepathOnly(m) == m.needRepath

MasksRoutesToDisable(m) == BitOr(BitAndNot(m.prevEnabled, m.enabled), m.needRepath)

\* the queries of the collection
enabledRouteMask(dir) == mRoutes[dir].enabled
prevEnabledRouteMask(dir) == mRoutes[dir].prevEnabled
needReflowRouteMask(dir) == mRoutes[dir].needReflow
needRepathRouteMask(dir) == mRoutes[dir].needRepath
unmutedRoutes(dir) == MasksUnmutedRoutes(mRoutes[dir])
routesToMute(dir) == MasksRoutesToMute(mRoutes[dir])
openedRoutes(dir) == MasksOpenedRoutes(mRoutes[dir])
routesToDisable(dir) == MasksRoutesToDisable(mRoutes[dir])
routingHasChanged ==
    MasksRoutingHasChanged(mRoutes[Output]) \/ MasksRoutingHasChanged(mRoutes[Input])

(***************************************************************************)
(* Stream registry.                                                        *)
(***************************************************************************)
\* a remove that erases the first occurrence only
RECURSIVE ListRemoveFirstOnly(_, _)
ListRemoveFirstOnly(list, s) ==
    IF list = << >> THEN << >>
    ELSE IF Head(list) = s THEN Tail(list)
    ELSE << Head(list) >> \o ListRemoveFirstOnly(Tail(list), s)

RECURSIVE ListRemove(_, _)
ListRemove(list, s) ==
    IF list = << >> THEN << >>
    ELSE IF Head(list) = s THEN ListRemove(Tail(list), s)
    ELSE << Head(list) >> \o ListRemove(Tail(list), s)

\* addStream that appends a direct stream like any other
AddStreamListAppends(lists, s) ==
    LET d == DirOf(StreamDef[s].isOut) IN
    [lists EXCEPT ![d] = Append(lists[d], s)]

AddStreamList(lists, s) ==
    LET d == DirOf(StreamDef[s].isOut) IN
    IF StreamDef[s].isDirect
    THEN [lists EXCEPT ![d] = << s >> \o lists[d]]
    ELSE [lists EXCEPT ![d] = Append(lists[d], s)]

RemoveStreamList(lists, s) ==
    LET d == DirOf(StreamDef[s].isOut) IN
    [lists EXCEPT ![d] = ListRemove(lists[d], s)]

addStream(s) ==
    /\ Len(mOrderedStreamList[DirOf(StreamDef[s].isOut)]) < MaxListLen
    /\ mOrderedStreamList' = AddStreamList(mOrderedStreamList, s)
    /\ calls' = << >>
    /\ Step
    /\ UNCHANGED << registry, route, stream, mRoutes >>

removeStream(s) ==
    /\ mOrderedStreamList' = RemoveStreamList(mOrderedStreamList, s)
    /\ calls' = << >>
    /\ Step
    /\ UNCHANGED << registry, route, stream, mRoutes >>

(***************************************************************************)
(* Route registry.                                                         *)
(***************************************************************************)
\* push_back that stores the element whether or not the key is there
PushBackRegistryOverwrites(reg, r) == [reg EXCEPT ![Key(r)] = r]

PushBackRegistry(reg, r) ==
    IF reg[Key(r)] # NoRoute THEN reg ELSE [reg EXCEPT ![Key(r)] = r]

\* the caller hands over a route object the registry does not own yet; a
\* key that is already there is answered with a warning in the log
push_back(r) ==
    /\ r \notin Registered
    /\ registry' = PushBackRegistry(registry, r)
    /\ calls' = IF registry[Key(r)] # NoRoute THEN << << "Warning", r >> >> ELSE << >>
    /\ Step
    /\ UNCHANGED << route, stream, mOrderedStreamList, mRoutes >>

\* delete it.second for every entry: the objects are gone, the slots are
\* free for the next objects the caller constructs
ResetRoutes(rt, reg) ==
    [r \in RouteIds |-> IF \E k \in Keys : reg[k] = r THEN NewRoute ELSE rt[r]]

\* reset without the clear() of the map
ResetRegistryKeepsEntries(reg) == reg

\* (*this).clear()
ResetRegistry(reg) == [k \in Keys |-> NoRoute]

reset ==
    /\ registry' = ResetRegistry(registry)
    /\ route' = ResetRoutes(route, registry)
    /\ calls' = << >>
    /\ Step
    /\ UNCHANGED << stream, mOrderedStreamList, mRoutes >>

RECURSIVE ResetAvailabilityFrom(_, _, _)
ResetAvailabilityFrom(i, reg, acc) ==
    IF i > Len(KeyOrder) THEN acc
    ELSE LET r == reg[KeyOrder[i]] IN
         IF r = NoRoute THEN ResetAvailabilityFrom(i + 1, reg, acc)
         ELSE ResetAvailabilityFrom(i + 1, reg,
                                    RouteResetAvailability(acc.route, acc.stream, r))

ResetAvailabilityResult(reg, rt, st, m) ==
    LET res == ResetAvailabilityFrom(1, reg, [route |-> rt, stream |-> st]) IN
    [route |-> res.route, stream |-> res.stream,
     mRoutes |-> [d \in Directions |-> MasksReset(m[d])]]

resetAvailability ==
    LET res == ResetAvailabilityResult(registry, route, stream, mRoutes) IN
    /\ mRoutes' = res.mRoutes
    /\ route' = res.route
    /\ stream' = res.stream
    /\ calls' = << >>
    /\ Step
    /\ UNCHANGED << registry, mOrderedStreamList >>

(***************************************************************************)
(* Match phase.                                                            *)
(***************************************************************************)
\* setStreamForRoute that does not ask whether the stream is started
RECURSIVE ScanStreamsIgnoresStarted(_, _, _, _, _)
ScanStreamsIgnoresStarted(r, list, i, rt, st) ==
    IF i > Len(list)
    THEN [ret |-> FALSE, route |-> rt, stream |-> st, calls |-> << >>]
    ELSE LET s == list[i] IN
         IF /\ st[s].routedByPolicy
            /\ ~st[s].newRouteAvailable
            /\ IsMatchingWithStream(r, s)
         THEN LET res == SetStream(rt, st, r, s) IN
              [ret |-> res.ok, route |-> res.route, stream |-> res.stream,
               calls |-> << << "setStream", r, s >> >>]
         ELSE ScanStreamsIgnoresStarted(r, list, i + 1, rt, st)

\* setStreamForRoute that does not ask whether the stream has a new route
RECURSIVE ScanStreamsIgnoresNewRoute(_, _, _, _, _)
ScanStreamsIgnoresNewRoute(r, list, i, rt, st) ==
    IF i > Len(list)
    THEN [ret |-> FALSE, route |-> rt, stream |-> st, calls |-> << >>]
    ELSE LET s == list[i] IN
         IF /\ st[s].started
            /\ st[s].routedByPolicy
            /\ IsMatchingWithStream(r, s)
         THEN LET res == SetStream(rt, st, r, s) IN
              [ret |-> res.ok, route |-> res.route, stream |-> res.stream,
               calls |-> << << "setStream", r, s >> >>]
         ELSE ScanStreamsIgnoresNewRoute(r, list, i + 1, rt, st)

RECURSIVE ScanStreams(_, _, _, _, _)
ScanStreams(r, list, i, rt, st) ==
    IF i > Len(list)
    THEN [ret |-> FALSE, route |-> rt, stream |-> st, calls |-> << >>]
    ELSE LET s == list[i] IN
         IF /\ st[s].started
            /\ st[s].routedByPolicy
            /\ ~st[s].newRouteAvailable
            /\ IsMatchingWithStream(r, s)
         THEN LET res == SetStream(rt, st, r, s) IN
              [ret |-> res.ok, route |-> res.route, stream |-> res.stream,
               calls |-> << << "setStream", r, s >> >>]
         ELSE ScanStreams(r, list, i + 1, rt, st)

SetStreamForRoute(r, lists, rt, st) ==
    ScanStreams(r, lists[DirOf(RouteDef[r].isOut)], 1, rt, st)

\* a marking that records the requests of a route that obtained no stream
MarkRouteRecordsUnmatched(r, lists, acc) ==
    LET res == SetStreamForRoute(r, lists, acc.route, acc.stream)
        d == DirOf(RouteDef[r].isOut)
        mask == RouteDef[r].mask
        m1 == IF res.ret THEN SetEnabledRoute(acc.mRoutes[d], mask) ELSE acc.mRoutes[d]
        m2 == IF res.route[r].needReflow THEN SetNeedReflowRoute(m1, mask) ELSE m1
        m3 == IF res.route[r].needRepath THEN SetNeedRepathRoute(m2, mask) ELSE m2
    IN  [route |-> IF res.ret THEN [res.route EXCEPT ![r].used = TRUE] ELSE res.route,
         stream |-> res.stream,
         mRoutes |-> [acc.mRoutes EXCEPT ![d] = m3],
         calls |-> acc.calls \o res.calls]

\* a marking that writes the masks of the output direction for every route
MarkRouteMarksOutput(r, lists, acc) ==
    LET res == SetStreamForRoute(r, lists, acc.route, acc.stream)
        mask == RouteDef[r].mask
        m1 == SetEnabledRoute(acc.mRoutes[Output], mask)
        m2 == IF res.route[r].needReflow THEN SetNeedReflowRoute(m1, mask) ELSE m1
        m3 == IF res.route[r].needRepath THEN SetNeedRepathRoute(m2, mask) ELSE m2
    IN  IF res.ret
        THEN [route |-> [res.route EXCEPT ![r].used = TRUE],
              stream |-> res.stream,
              mRoutes |-> [acc.mRoutes EXCEPT ![Output] = m3],
              calls |-> acc.calls \o res.calls]
        ELSE [route |-> res.route, stream |-> res.stream,
              mRoutes |-> acc.mRoutes, calls |-> acc.calls \o res.calls]

\* the marking of a matched route, as prepareRouting does it
MarkRoute(r, lists, acc) ==
    LET res == SetStreamForRoute(r, lists, acc.route, acc.stream)
        d == DirOf(RouteDef[r].isOut)
        mask == RouteDef[r].mask
        m1 == SetEnabledRoute(acc.mRoutes[d], mask)
        m2 == IF res.route[r].needReflow THEN SetNeedReflowRoute(m1, mask) ELSE m1
        m3 == IF res.route[r].needRepath THEN SetNeedRepathRoute(m2, mask) ELSE m2
    IN  IF res.ret
        THEN [route |-> [res.route EXCEPT ![r].used = TRUE],
              stream |-> res.stream,
              mRoutes |-> [acc.mRoutes EXCEPT ![d] = m3],
              calls |-> acc.calls \o res.calls]
        ELSE [route |-> res.route, stream |-> res.stream,
              mRoutes |-> acc.mRoutes, calls |-> acc.calls \o res.calls]

\* prepareRouting that offers a stream to a route already in use
PrepareRouteIgnoresUsed(r, lists, acc) == MarkRoute(r, lists, acc)

\* the body of the loop of prepareRouting for one route
PrepareRoute(r, lists, acc) ==
    IF acc.route[r].used THEN acc ELSE MarkRoute(r, lists, acc)

RECURSIVE PrepareRoutingFrom(_, _, _, _)
PrepareRoutingFrom(i, reg, lists, acc) ==
    IF i > Len(KeyOrder) THEN acc
    ELSE LET r == reg[KeyOrder[i]] IN
         IF r = NoRoute THEN PrepareRoutingFrom(i + 1, reg, lists, acc)
         ELSE PrepareRoutingFrom(i + 1, reg, lists, PrepareRoute(r, lists, acc))

PrepareRoutingResult(reg, lists, rt, st, m) ==
    PrepareRoutingFrom(1, reg, lists,
                       [route |-> rt, stream |-> st, mRoutes |-> m, calls |-> << >>])

prepareRouting ==
    LET res == PrepareRoutingResult(registry, mOrderedStreamList, route, stream, mRoutes) IN
    /\ route' = res.route
    /\ stream' = res.stream
    /\ mRoutes' = res.mRoutes
    /\ calls' = res.calls
    /\ Step
    /\ UNCHANGED << registry, mOrderedStreamList >>

(***************************************************************************)
(* Enable / disable phases and device connection.  route(), unroute(),     *)
(* loadCapabilities() and resetCapabilities() act on the device layer; the *)
(* collection sees the call and, for route(), the status it returns.       *)
(***************************************************************************)
\* disableRoutes that overlooks the routes asking for a repath
RECURSIVE DisableRoutesFromDroppedOnly(_, _, _, _)
DisableRoutesFromDroppedOnly(i, reg, rt, isPostDisable) ==
    IF i > Len(KeyOrder) THEN << >>
    ELSE LET r == reg[KeyOrder[i]] IN
         IF r # NoRoute /\ rt[r].previouslyUsed /\ ~rt[r].used
         THEN << << "unroute", r, isPostDisable >> >>
                  \o DisableRoutesFromDroppedOnly(i + 1, reg, rt, isPostDisable)
         ELSE DisableRoutesFromDroppedOnly(i + 1, reg, rt, isPostDisable)

RECURSIVE DisableRoutesFrom(_, _, _, _)
DisableRoutesFrom(i, reg, rt, isPostDisable) ==
    IF i > Len(KeyOrder) THEN << >>
    ELSE LET r == reg[KeyOrder[i]] IN
         IF /\ r # NoRoute
            /\ ((rt[r].previouslyUsed /\ ~rt[r].used) \/ rt[r].needRepath)
         THEN << << "unroute", r, isPostDisable >> >>
                  \o DisableRoutesFrom(i + 1, reg, rt, isPostDisable)
         ELSE DisableRoutesFrom(i + 1, reg, rt, isPostDisable)

disableRoutes(isPostDisable) ==
    /\ calls' = DisableRoutesFrom(1, registry, route, isPostDisable)
    /\ Step
    /\ UNCHANGED << registry, route, stream, mOrderedStreamList, mRoutes >>

postDisableRoutes == disableRoutes(TRUE)

\* failing: the routes whose route() call returns an error

\* enableRoutes that gives up at the first route() call that fails
RECURSIVE EnableRoutesFromStopsAtFailure(_, _, _, _, _)
EnableRoutesFromStopsAtFailure(i, reg, rt, isPreEnable, failing) ==
    IF i > Len(KeyOrder) THEN << >>
    ELSE LET r == reg[KeyOrder[i]] IN
         IF /\ r # NoRoute
            /\ ((~rt[r].previouslyUsed /\ rt[r].used) \/ rt[r].needRepath)
         THEN << << "route", r, isPreEnable, r \notin failing >> >>
                  \o (IF r \in failing THEN << >>
                      ELSE EnableRoutesFromStopsAtFailure(i + 1, reg, rt, isPreEnable, failing))
         ELSE EnableRoutesFromStopsAtFailure(i + 1, reg, rt, isPreEnable, failing)

RECURSIVE EnableRoutesFrom(_, _, _, _, _)
EnableRoutesFrom(i, reg, rt, isPreEnable, failing) ==
    IF i > Len(KeyOrder) THEN << >>
    ELSE LET r == reg[KeyOrder[i]] IN
         IF /\ r # NoRoute
            /\ ((~rt[r].previouslyUsed /\ rt[r].used) \/ rt[r].needRepath)
         THEN << << "route", r, isPreEnable, r \notin failing >> >>
                  \o EnableRoutesFrom(i + 1, reg, rt, isPreEnable, failing)
         ELSE EnableRoutesFrom(i + 1, reg, rt, isPreEnable, failing)

enableRoutes(isPreEnable, failing) ==
    /\ calls' = EnableRoutesFrom(1, registry, route, isPreEnable, failing)
    /\ Step
    /\ UNCHANGED << registry, route, stream, mOrderedStreamList, mRoutes >>

preEnableRoutes(failing) == enableRoutes(TRUE, failing)

\* the devices that connect and disconnect
Devices == {4, 6}

\* handleDeviceConnectionState that takes a route sharing any bit with the device
RECURSIVE HandleDeviceFromOverlap(_, _, _, _)
HandleDeviceFromOverlap(i, reg, device, isConnected) ==
    IF i > Len(KeyOrder) THEN << >>
    ELSE LET r == reg[KeyOrder[i]] IN
         IF r # NoRoute /\ BitAnd(RouteDef[r].devices, device) # 0
         THEN << << (IF isConnected THEN "loadCapabilities" ELSE "resetCapabilities"), r >> >>
                  \o HandleDeviceFromOverlap(i + 1, reg, device, isConnected)
         ELSE HandleDeviceFromOverlap(i + 1, reg, device, isConnected)

RECURSIVE HandleDeviceFrom(_, _, _, _)
HandleDeviceFrom(i, reg, device, isConnected) ==
    IF i > Len(KeyOrder) THEN << >>
    ELSE LET r == reg[KeyOrder[i]] IN
         IF r # NoRoute /\ BitAnd(RouteDef[r].devices, device) = device
         THEN << << (IF isConnected THEN "loadCapabilities" ELSE "resetCapabilities"), r >> >>
                  \o HandleDeviceFrom(i + 1, reg, device, isConnected)
         ELSE HandleDeviceFrom(i + 1, reg, device, isConnected)

handleDeviceConnectionState(device, isConnected) ==
    /\ calls' = HandleDeviceFrom(1, registry, device, isConnected)
    /\ Step
    /\ UNCHANGED << registry, route, stream, mOrderedStreamList, mRoutes >>

\* what *mOrderedStreamList[Direction::Output].begin() yields: the head of a
\* list that has one; on an empty list begin() is end(), the read is
\* undefined and any pointer value may come out of it
FirstOutputStream ==
    IF mOrderedStreamList[Output] # << >>
    THEN {Head(mOrderedStreamList[Output])}
    ELSE {NoStream} \cup StreamIds

getVoiceStreamRoute ==
    /\ \E it \in FirstOutputStream :
           calls' = (IF it = NoStream THEN << << "Error", NoStream >> >> ELSE << >>)
                        \o << << "return", it >> >>
    /\ Step
    /\ UNCHANGED << registry, route, stream, mOrderedStreamList, mRoutes >>

(***************************************************************************)
(* The environment: the audio I/O layer starts and stops streams, the      *)
(* policy takes streams in and out of its routing (streams that are in a   *)
(* list of the collection), a registered route raises or lowers its        *)
(* reflow / repath requests.                                               *)
(***************************************************************************)
\* the stream is in the list of its direction
InList(s) ==
    \E i \in 1 .. Len(mOrderedStreamList[DirOf(StreamDef[s].isOut)]) :
        mOrderedStreamList[DirOf(StreamDef[s].isOut)][i] = s

SetStarted(s, b) ==
    /\ InList(s)
    /\ stream[s].started # b
    /\ stream' = [stream EXCEPT ![s].started = b]
    /\ calls' = << >>
    /\ Step
    /\ UNCHANGED << registry, route, mOrderedStreamList, mRoutes >>

SetRoutedByPolicy(s, b) ==
    /\ InList(s)
    /\ stream[s].routedByPolicy # b
    /\ stream' = [stream EXCEPT ![s].routedByPolicy = b]
    /\ calls' = << >>
    /\ Step
    /\ UNCHANGED << registry, route, mOrderedStreamList, mRoutes >>

SetRouteRequests(r, reflow, repath) ==
    /\ r \in Registered
    /\ << route[r].needReflow, route[r].needRepath >> # << reflow, repath >>
    /\ route' = [route EXCEPT ![r].needReflow = reflow, ![r].needRepath = repath]
    /\ calls' = << >>
    /\ Step
    /\ UNCHANGED << registry, stream, mOrderedStreamList, mRoutes >>

Next ==
    \/ \E s \in StreamIds : addStream(s)
    \/ \E s \in StreamIds : removeStream(s)
    \/ \E r \in RouteIds : push_back(r)
    \/ reset
    \/ resetAvailability
    \/ prepareRouting
    \/ disableRoutes(FALSE)
    \/ postDisableRoutes
    \/ \E failing \in SUBSET Registered : enableRoutes(FALSE, failing)
    \/ \E failing \in SUBSET Registered : preEnableRoutes(failing)
    \/ \E device \in Devices, isConnected \in BOOLEAN :
           handleDeviceConnectionState(device, isConnected)
    \/ getVoiceStreamRoute
    \/ \E s \in StreamIds, b \in BOOLEAN : SetStarted(s, b)
    \/ \E s \in StreamIds, b \in BOOLEAN : SetRoutedByPolicy(s, b)
    \/ \E r \in RouteIds, reflow \in BOOLEAN, repath \in BOOLEAN :
           SetRouteRequests(r, reflow, repath)

Spec == Init /\ [][Next]_vars

(***************************************************************************)
(* The stream list scenario: the stream lists start as any lists addStream *)
(* can have built (direct streams first, a stream possibly several times,  *)
(* each stream in the list of its direction) and streams are removed.      *)
(***************************************************************************)
MaxInitLen == 3

ListsUpTo(S, n) == UNION {[1 .. k -> S] : k \in 0 .. n}

BuiltByAddStream(d, list) ==
    /\ \A i \in 1 .. Len(list) : DirOf(StreamDef[list[i]].isOut) = d
    /\ \A i, j \in 1 .. Len(list) :
           (StreamDef[list[i]].isDirect /\ ~StreamDef[list[j]].isDirect) => i < j

InitStreams ==
    /\ registry = [k \in Keys |-> NoRoute]
    /\ route = [r \in RouteIds |-> NewRoute]
    /\ stream = [s \in StreamIds |->
                    [started |-> TRUE, routedByPolicy |-> TRUE, newRouteAvailable |-> FALSE]]
    /\ mOrderedStreamList \in
           {lists \in [Directions -> ListsUpTo(ListStreamIds, MaxInitLen)] :
                \A d \in Directions : BuiltByAddStream(d, lists[d])}
    /\ mRoutes = [d \in Directions |-> RouteMasksInit]
    /\ calls = << >>
    /\ nOps = 0

NextStreams == \E s \in ListStreamIds : removeStream(s)

SpecStreams == InitStreams /\ [][NextStreams]_vars

(***************************************************************************)
(* Properties.                                                             *)
(***************************************************************************)
\* one reconsideration cycle, resetAvailability then prepareRouting, run on
\* the routes, streams and masks c with the registry and the stream lists
\* of the current state
CycleResult(c) ==
    LET ra == ResetAvailabilityResult(registry, c.route, c.stream, c.mRoutes) IN
    PrepareRoutingResult(registry, mOrderedStreamList, ra.route, ra.stream, ra.mRoutes)

\* the bit of a route's mask is set in a bit field
BitIn(bit, mask) == BitAnd(mask, bit) = bit

RECURSIVE OrOfMasks(_)
OrOfMasks(S) ==
    IF S = {} THEN 0
    ELSE LET r == CHOOSE x \in S : TRUE IN BitOr(RouteDef[r].mask, OrOfMasks(S \ {r}))

RoutesOf(d) == {r \in Registered : DirOf(RouteDef[r].isOut) = d}
ListOf(r) == mOrderedStreamList[DirOf(RouteDef[r].isOut)]

\* the four conditions of setStreamForRoute, for stream s and route r
Eligible(r, s, st) ==
    /\ st[s].started
    /\ st[s].routedByPolicy
    /\ ~st[s].newRouteAvailable
    /\ IsMatchingWithStream(r, s)

EligiblePositions(r, st) == {i \in 1 .. Len(ListOf(r)) : Eligible(r, ListOf(r)[i], st)}

\* the positions of the calls of setStream on route r in the calls cs
SetStreamCallsOn(cs, r) == {i \in 1 .. Len(cs) : cs[i][1] = "setStream" /\ cs[i][2] = r}

Current == [route |-> route, stream |-> stream, mRoutes |-> mRoutes]

NoRouteRaisesRequest ==
    \A r \in Registered : ~route[r].needReflow /\ ~route[r].needRepath

\* C1: from any reachable state in which no route raises needReflow or
\* needRepath, two cycles run one after the other with the same registry,
\* stream lists and stream attributes end with enabledRouteMask equal to
\* prevEnabledRouteMask in both directions and routingHasChanged false.
C1_RoundTrip ==
    NoRouteRaisesRequest =>
        LET c2 == CycleResult(CycleResult(Current)) IN
        /\ \A d \in Directions : c2.mRoutes[d].enabled = c2.mRoutes[d].prevEnabled
        /\ ~MasksRoutingHasChanged(c2.mRoutes[Output])
        /\ ~MasksRoutingHasChanged(c2.mRoutes[Input])

\* a state in which the first of the two cycles changes the routing of both
\* directions and the second one finds routes enabled in both
C1_Witness ==
    /\ NoRouteRaisesRequest
    /\ LET c1 == CycleResult(Current)
           c2 == CycleResult(c1) IN
       \A d \in Directions :
           /\ MasksRoutingHasChanged(c1.mRoutes[d])
           /\ c2.mRoutes[d].enabled # 0

\* C2: in each direction's stream list every direct stream precedes every
\* non-direct stream, so that setStreamForRoute, which scans the list from
\* its head, binds a non-direct stream to a route only when no direct stream
\* of the list is eligible for that route.
C2_DirectFirst ==
    /\ \A d \in Directions :
         \A i, j \in 1 .. Len(mOrderedStreamList[d]) :
             (/\ StreamDef[mOrderedStreamList[d][i]].isDirect
              /\ ~StreamDef[mOrderedStreamList[d][j]].isDirect) => i < j
    /\ \A r \in Registered :
         LET res == SetStreamForRoute(r, mOrderedStreamList, route, stream) IN
         (res.ret /\ ~StreamDef[res.route[r].newStream].isDirect) =>
             \A i \in EligiblePositions(r, stream) : ~StreamDef[ListOf(r)[i]].isDirect

\* prepareRouting has bound the direct stream 2 to route 1 although the
\* non-direct stream 1, which matches route 1 too, is in the list and is
\* left to route 2
C2_Witness ==
    /\ mOrderedStreamList[Output] = << 2, 1 >>
    /\ calls = << << "setStream", 1, 2 >>, << "setStream", 2, 1 >> >>

\* C3: setStreamForRoute binds the route to the first stream, in the order
\* of the list of the route's direction, that is started, routed by policy,
\* has no new route available and matches the route, and returns true; when
\* no stream of the list meets the four conditions it returns false and
\* changes nothing, and prepareRouting leaves such a route unused.
C3_FirstEligible ==
    \A r \in Registered :
        LET res == SetStreamForRoute(r, mOrderedStreamList, route, stream)
            pos == EligiblePositions(r, stream)
            pr == PrepareRoutingResult(registry, mOrderedStreamList, route, stream, mRoutes)
        IN  IF pos = {}
            THEN /\ ~res.ret
                 /\ res.calls = << >>
                 /\ res.route = route
                 /\ res.stream = stream
                 /\ ~route[r].used => ~pr.route[r].used
            ELSE LET first == ListOf(r)[CHOOSE i \in pos : \A j \in pos : i <= j] IN
                 /\ res.ret
                 /\ res.calls = << << "setStream", r, first >> >>
                 /\ res.route[r].newStream = first
                 /\ res.stream[first].newRouteAvailable

\* prepareRouting has passed over the stopped stream 2 at the head of the
\* output list and bound stream 1 to route 1
C3_Witness ==
    /\ mOrderedStreamList[Output] = << 2, 1 >>
    /\ ~stream[2].started
    /\ calls = << << "setStream", 1, 1 >> >>
    /\ route[1].used
    /\ route[1].newStream = 1

\* C4: one prepareRouting pass calls setStream at most once on each route,
\* and not at all on a route that is in use when the pass starts.
C4_OneStreamPerRoute ==
    LET pr == PrepareRoutingResult(registry, mOrderedStreamList, route, stream, mRoutes) IN
    \A r \in RouteIds :
        /\ Cardinality(SetStreamCallsOn(pr.calls, r)) <= 1
        /\ route[r].used => SetStreamCallsOn(pr.calls, r) = {}

\* a pass has bound stream 2 to route 1 and has left stream 1 free, which
\* meets the four conditions for route 1 too
C4_Witness ==
    /\ route[1].used
    /\ route[1].newStream = 2
    /\ registry["A_Playback"] = 1
    /\ calls = << << "setStream", 1, 2 >> >>
    /\ EligiblePositions(1, stream) # {}

\* C5: a route R whose bit is in enabledRouteMask of its direction and that
\* obtains no stream in the next cycle has, after that cycle, its bit in
\* routesToDisable and in routesToMute and not in enabledRouteMask.
C5_DroppedRoute ==
    LET c == CycleResult(Current) IN
    \A r \in Registered :
        LET d == DirOf(RouteDef[r].isOut)
            bit == RouteDef[r].mask
        IN  (BitIn(bit, mRoutes[d].enabled) /\ ~c.route[r].used) =>
                /\ BitIn(bit, MasksRoutesToDisable(c.mRoutes[d]))
                /\ BitIn(bit, MasksRoutesToMute(c.mRoutes[d]))
                /\ ~BitIn(bit, c.mRoutes[d].enabled)

\* route 1 was enabled by the last cycle, its stream has left the list since,
\* and the cycle that follows leaves route 1 without a stream
C5_Witness ==
    /\ registry["A_Playback"] = 1
    /\ BitIn(1, mRoutes[Output].enabled)
    /\ route[1].used
    /\ EligiblePositions(1, stream) = {}
    /\ \A i \in 1 .. Len(mOrderedStreamList[Output]) :
           ~IsMatchingWithStream(1, mOrderedStreamList[Output][i])
    /\ ~CycleResult(Current).route[1].used

FreshMasks == \A d \in Directions : mRoutes[d] = RouteMasksInit

\* C6: when every RouteMasks field is still 0, as after construction,
\* prepareRouting leaves enabledRouteMask(dir) equal to the OR of the masks of
\* exactly the routes of dir that obtained a stream, and routesToDisable(dir)
\* is 0 unless a route matched by the pass raises needRepath.
C6_FirstCycle ==
    FreshMasks =>
        LET pr == PrepareRoutingResult(registry, mOrderedStreamList, route, stream, mRoutes) IN
        \A d \in Directions :
            /\ pr.mRoutes[d].enabled = OrOfMasks({r \in RoutesOf(d) : pr.route[r].used})
            /\ MasksRoutesToDisable(pr.mRoutes[d]) # 0 =>
                   \E r \in RoutesOf(d) :
                       /\ SetStreamCallsOn(pr.calls, r) # {}
                       /\ route[r].needRepath

\* the first pass of a collection has enabled routes 1 and 2, nothing was
\* enabled before and nothing is to be disabled
C6_Witness ==
    /\ mRoutes[Output].enabled = 3
    /\ mRoutes[Output].prevEnabled = 0
    /\ mRoutes[Input].prevEnabled = 0
    /\ routesToDisable(Output) = 0
    /\ calls = << << "setStream", 1, 2 >>, << "setStream", 2, 1 >> >>
    /\ route[1].used /\ route[2].used

\* the RouteMasks after one and after two calls of resetAvailability
ResetOnce == ResetAvailabilityResult(registry, route, stream, mRoutes)
ResetTwice ==
    LET once == ResetOnce IN
    ResetAvailabilityResult(registry, once.route, once.stream, once.mRoutes)

\* C7 as stated: two calls of resetAvailability in a row leave the RouteMasks
\* as one call does, and a call leaves previouslyEnabled as it was.
C7_Idempotent ==
    /\ ResetTwice.mRoutes = ResetOnce.mRoutes
    /\ \A d \in Directions : ResetOnce.mRoutes[d].prevEnabled = mRoutes[d].prevEnabled

\* C7, amended: one call and two calls of resetAvailability both leave
\* enabled, needReflow and needRepath at 0; the first call sets
\* previouslyEnabled to the value enabled had, the second sets it to 0, so
\* the two results are equal exactly when enabled was 0 in both directions.
C7_ResetTwice ==
    LET once == ResetOnce.mRoutes
        twice == ResetTwice.mRoutes IN
    /\ \A d \in Directions :
        /\ once[d].enabled = 0 /\ twice[d].enabled = 0
        /\ once[d].needReflow = 0 /\ twice[d].needReflow = 0
        /\ once[d].needRepath = 0 /\ twice[d].needRepath = 0
        /\ once[d].prevEnabled = mRoutes[d].enabled
        /\ twice[d].prevEnabled = 0
    /\ (twice = once) <=> (\A d \in Directions : mRoutes[d].enabled = 0)

\* resetAvailability has moved the enabled output routes to previouslyEnabled
\* and a second call would lose them
C7_Witness ==
    /\ mRoutes[Output].prevEnabled # 0
    /\ mRoutes[Output].enabled = 0
    /\ \E r \in RoutesOf(Output) : route[r].previouslyUsed /\ ~route[r].used
    /\ ResetOnce.mRoutes[Output].prevEnabled = 0

\* C8: a call of resetAvailability sets, in both directions, previouslyEnabled
\* to the value enabled had before the call and enabled, needReflow and
\* needRepath to 0; a step that changes previouslyEnabled in some direction
\* is a call of resetAvailability and of no other operation.
C8_ResetFrame ==
    [][/\ resetAvailability =>
            \A d \in Directions :
                mRoutes'[d] = [prevEnabled |-> mRoutes[d].enabled, enabled |-> 0,
                               needReflow |-> 0, needRepath |-> 0]
       /\ (\E d \in Directions : mRoutes'[d].prevEnabled # mRoutes[d].prevEnabled) =>
            resetAvailability]_vars

\* resetAvailability has cleared the RouteMasks of both directions, each of
\* which had a route enabled
C8_Witness ==
    \A d \in Directions :
        /\ mRoutes[d].prevEnabled = 1
        /\ mRoutes[d].enabled = 0
        /\ \E r \in RoutesOf(d) : route[r].previouslyUsed /\ ~route[r].used

\* C9 as stated: reset() leaves the registry empty and the RouteMasks of
\* both directions with enabled, needReflow and needRepath at 0.
C9_ResetClearsMasks ==
    [][reset =>
          /\ \A k \in Keys : registry'[k] = NoRoute
          /\ \A d \in Directions :
                /\ mRoutes'[d].enabled = 0
                /\ mRoutes'[d].needReflow = 0
                /\ mRoutes'[d].needRepath = 0]_vars

\* C9, amended: reset() destroys every owned route and leaves the registry
\* empty; it leaves the RouteMasks of both directions, the stream lists and
\* the streams as they were.
C9_ResetKeepsMasks ==
    [][reset =>
          /\ \A k \in Keys : registry'[k] = NoRoute
          /\ \A r \in Registered : route'[r] = NewRoute
          /\ mRoutes' = mRoutes
          /\ mOrderedStreamList' = mOrderedStreamList
          /\ stream' = stream]_vars

\* reset() has emptied the registry and the output RouteMasks still carry
\* the routes that were enabled and flagged
C9_Witness ==
    /\ Registered = {}
    /\ mRoutes[Output].enabled # 0
    /\ mRoutes[Output].needRepath # 0

\* C10: push_back of a route whose key is registered leaves the registry, the
\* routes, the RouteMasks, the stream lists and the streams as they were and
\* logs a warning; push_back of a route whose key is free registers it under
\* that key next to the routes already there, a route of the same name and
\* the other direction included.
C10_PushBack ==
    [][\A r \in RouteIds :
          push_back(r) =>
              /\ UNCHANGED << route, stream, mOrderedStreamList, mRoutes >>
              /\ \A k \in Keys \ {Key(r)} : registry'[k] = registry[k]
              /\ IF registry[Key(r)] # NoRoute
                 THEN /\ registry' = registry
                      /\ Cardinality({k \in Keys : registry'[k] # NoRoute})
                            = Cardinality({k \in Keys : registry[k] # NoRoute})
                      /\ calls' = << << "Warning", r >> >>
                 ELSE /\ registry'[Key(r)] = r
                      /\ calls' = << >>]_vars

\* push_back has refused route 4, whose key belongs to route 1, while
\* route 3, of the same name and the other direction, is registered too and
\* route 1 is enabled
C10_Witness ==
    /\ calls = << << "Warning", 4 >> >>
    /\ registry["A_Playback"] = 1
    /\ registry["A_Capture"] = 3
    /\ mRoutes[Output].enabled = 1

\* the positions of the calls made on route r in the calls cs
CallsOn(cs, r) == {i \in 1 .. Len(cs) : cs[i][2] = r}

\* every bit of the device is a bit of the devices the route supports
SupportsDevice(r, device) ==
    \A bit \in {1, 2, 4} : BitIn(bit, device) => BitIn(bit, RouteDef[r].devices)

\* C11: handleDeviceConnectionState(device, connected) calls
\* loadCapabilities (connected) or resetCapabilities (disconnected) exactly
\* once on every registered route whose supported devices contain every bit
\* of device and on no other route, and changes neither the registry, the
\* routes, the streams, the stream lists nor any RouteMasks field.
C11_DeviceFrame ==
    [][\A device \in Devices, isConnected \in BOOLEAN :
           handleDeviceConnectionState(device, isConnected) =>
               /\ \A r \in RouteIds :
                      IF r \in Registered /\ SupportsDevice(r, device)
                      THEN Cardinality(CallsOn(calls', r)) = 1
                      ELSE CallsOn(calls', r) = {}
               /\ \A i \in 1 .. Len(calls') :
                      calls'[i][1] = (IF isConnected THEN "loadCapabilities"
                                                     ELSE "resetCapabilities")
               /\ UNCHANGED << registry, route, stream, mOrderedStreamList, mRoutes >>]_vars

\* device 6 has been disconnected with route 1, which supports both of its
\* bits, and route 2, which supports one of them, registered
C11_Witness ==
    /\ {1, 2} \subseteq Registered
    /\ calls = << << "resetCapabilities", 1 >> >>

\* C12: getVoiceStreamRoute() returns the head of the output stream list
\* when the list is not empty; when it is empty it reports an error and
\* returns none; in both cases it changes nothing of the collection.
C12_VoiceStream ==
    [][getVoiceStreamRoute =>
           /\ calls' = (IF mOrderedStreamList[Output] # << >>
                        THEN << << "return", Head(mOrderedStreamList[Output]) >> >>
                        ELSE << << "Error", NoStream >>, << "return", NoStream >> >>)
           /\ UNCHANGED << registry, route, stream, mOrderedStreamList, mRoutes >>]_vars

\* getVoiceStreamRoute() has been called on an empty output list and has
\* returned a stream without reporting an error
C12_Witness ==
    /\ mOrderedStreamList[Output] = << >>
    /\ calls = << << "return", 1 >> >>

\* enableRoutes calls route() on the route: it is newly used or asks for a repath
NeedsRoute(r) ==
    r \in Registered /\ ((~route[r].previouslyUsed /\ route[r].used) \/ route[r].needRepath)

\* C13: enableRoutes(isPreEnable) calls route(isPreEnable) exactly once on
\* every registered route that is (not previously used and used) or needs a
\* repath, and on no other route, whichever of the calls fail; a failing
\* call changes no RouteMasks field (nor anything else of the collection)
\* and does not keep the remaining routes from being processed.
C13_EnableRoutes ==
    [][\A isPreEnable \in BOOLEAN, failing \in SUBSET Registered :
           enableRoutes(isPreEnable, failing) =>
               /\ \A r \in RouteIds :
                      IF NeedsRoute(r)
                      THEN \E i \in 1 .. Len(calls') :
                               /\ CallsOn(calls', r) = {i}
                               /\ calls'[i] = << "route", r, isPreEnable, r \notin failing >>
                      ELSE CallsOn(calls', r) = {}
               /\ UNCHANGED << registry, route, stream, mOrderedStreamList, mRoutes >>]_vars

\* enableRoutes has run with two routes to enable: route() failed on the
\* first of them and was still called on the second
C13_Witness ==
    /\ calls = << << "route", 1, FALSE, FALSE >>, << "route", 2, FALSE, TRUE >> >>
    /\ ~NeedsRoute(3)

\* disableRoutes calls unroute() on the route: it is no longer used or asks
\* for a repath
NeedsUnroute(r) ==
    r \in Registered /\ ((route[r].previouslyUsed /\ ~route[r].used) \/ route[r].needRepath)

\* C14: disableRoutes(isPostDisable) calls unroute(isPostDisable) exactly
\* once on every registered route that is (previously used and not used) or
\* needs a repath, and on no other route; postDisableRoutes() is
\* disableRoutes(true): it acts on the same routes as disableRoutes() and
\* differs from it only in the flag it passes.
C14_DisableRoutes ==
    /\ [][\A isPostDisable \in BOOLEAN :
              disableRoutes(isPostDisable) =>
                  /\ \A r \in RouteIds :
                         IF NeedsUnroute(r)
                         THEN \E i \in 1 .. Len(calls') :
                                  /\ CallsOn(calls', r) = {i}
                                  /\ calls'[i] = << "unroute", r, isPostDisable >>
                         ELSE CallsOn(calls', r) = {}
                  /\ UNCHANGED << registry, route, stream, mOrderedStreamList, mRoutes >>]_vars
    /\ [][postDisableRoutes =>
              /\ Len(calls') = Len(DisableRoutesFrom(1, registry, route, FALSE))
              /\ \A i \in 1 .. Len(calls') :
                     LET c == DisableRoutesFrom(1, registry, route, FALSE)[i] IN
                     calls'[i] = << c[1], c[2], TRUE >> /\ c[3] = FALSE]_vars

\* postDisableRoutes has run with a registered route that was dropped by the
\* last cycle and a registered route that needs nothing
C14_Witness ==
    /\ calls = << << "unroute", 1, TRUE >> >>
    /\ route[1].previouslyUsed /\ ~route[1].used /\ ~route[1].needRepath
    /\ 2 \in Registered

\* C15: removeStream(s) removes every occurrence of s from the list of the
\* direction of s, a stream added several times included, and keeps the
\* other streams of that list in their order; it leaves the list of the
\* other direction as it is; it changes nothing when s is in no list; after
\* it, removing s once more changes nothing.
C15_RemoveStream ==
    [][\A s \in ListStreamIds :
           removeStream(s) =>
               LET d == DirOf(StreamDef[s].isOut) IN
               /\ mOrderedStreamList'[d] = SelectSeq(mOrderedStreamList[d], LAMBDA x : x # s)
               /\ mOrderedStreamList'[1 - d] = mOrderedStreamList[1 - d]
               /\ (\A i \in 1 .. Len(mOrderedStreamList[d]) : mOrderedStreamList[d][i] # s)
                      => mOrderedStreamList' = mOrderedStreamList
               /\ RemoveStreamList(mOrderedStreamList', s) = mOrderedStreamList'
               /\ UNCHANGED << registry, route, stream, mRoutes >>]_vars

\* one removeStream has run on an output list that held a stream twice
\* between two other streams, or on those two streams alone
C15_Witness ==
    /\ nOps = 1
    /\ mOrderedStreamList[Output] = << 2, 4 >>
    /\ mOrderedStreamList[Input] = << 3, 3 >>

\* the routes both to mute and to disable are those that left the enabled
\* set and those that ask for both a reflow and a repath
MuteDisableOverlap(m) ==
    BitAnd(MasksRoutesToMute(m), MasksRoutesToDisable(m))
        = BitOr(BitAndNot(m.prevEnabled, m.enabled), BitAnd(m.needReflow, m.needRepath))

\* C16: in every reachable state, and in the state a cycle leads to from
\* it, for each direction routesToMute(dir) & routesToDisable(dir) equals
\* (prevEnabled & ~enabled) | (needReflow & needRepath): the routes that
\* left the enabled set are in both sets, and beyond them the sets share
\* only the routes flagged both needReflow and needRepath.
C16_MuteDisableOverlap ==
    \A d \in Directions :
        /\ BitAnd(routesToMute(d), routesToDisable(d))
               = BitOr(BitAndNot(prevEnabledRouteMask(d), enabledRouteMask(d)),
                       BitAnd(needReflowRouteMask(d), needRepathRouteMask(d)))
        /\ BitAndNot(BitAndNot(prevEnabledRouteMask(d), enabledRouteMask(d)), routesToMute(d)) = 0
        /\ BitAndNot(BitAndNot(prevEnabledRouteMask(d), enabledRouteMask(d)), routesToDisable(d)) = 0
        /\ MuteDisableOverlap(CycleResult(Current).mRoutes[d])

\* a state from which a cycle drops an output route and enables another one
\* that asks for both a reflow and a repath: both are to mute and to disable
C16_Witness ==
    LET m == CycleResult(Current).mRoutes IN
    /\ BitAndNot(m[Output].prevEnabled, m[Output].enabled) # 0
    /\ BitAnd(m[Output].needReflow, m[Output].needRepath) # 0
    /\ BitAnd(MasksRoutesToMute(m[Output]), MasksRoutesToDisable(m[Output])) = 3

\* disableRoutes would call unroute() on route r, the routes being rt
UnrouteCalled(r, rt) ==
    CallsOn(DisableRoutesFrom(1, registry, rt, FALSE), r) # {}

\* the bit of route r is in routesToDisable of its direction, the masks being m
InRoutesToDisable(r, m) ==
    BitIn(RouteDef[r].mask, MasksRoutesToDisable(m[DirOf(RouteDef[r].isOut)]))

\* the bit of route r in previouslyEnabled tells whether r was previously used
PrevAgrees(r, c) ==
    BitIn(RouteDef[r].mask, c.mRoutes[DirOf(RouteDef[r].isOut)].prevEnabled)
        <=> c.route[r].previouslyUsed

\* C17 as stated: after a cycle, the routes on which disableRoutes would
\* call unroute are exactly the registered routes whose mask bit is in
\* routesToDisable of their direction, whatever the needRepath flags and the
\* matches are.
C17_MaskBooleanAgreement ==
    LET c == CycleResult(Current) IN
    \A r \in Registered : UnrouteCalled(r, c.route) <=> InRoutesToDisable(r, c.mRoutes)

\* C17, amended: after a cycle, a registered route whose previouslyEnabled
\* bit agrees with its previouslyUsed flag (every registered route after two
\* cycles in a row) has its bit in routesToDisable of its direction exactly
\* when it is (previously used and not used) or (used and needs a repath);
\* disableRoutes would call unroute on these routes and, beyond them, on
\* the routes that need a repath and obtained no stream, whose bit is not in
\* routesToDisable unless they were previously used.
C17_AgreementWhenMatched ==
    LET c == CycleResult(Current)
        c2 == CycleResult(c) IN
    /\ \A r \in Registered :
           /\ PrevAgrees(r, c) =>
                  (InRoutesToDisable(r, c.mRoutes)
                       <=> \/ c.route[r].previouslyUsed /\ ~c.route[r].used
                           \/ c.route[r].used /\ c.route[r].needRepath)
           /\ UnrouteCalled(r, c.route)
                  <=> \/ c.route[r].previouslyUsed /\ ~c.route[r].used
                      \/ c.route[r].used /\ c.route[r].needRepath
                      \/ ~c.route[r].used /\ c.route[r].needRepath
           /\ PrevAgrees(r, c2)
    /\ \A d \in Directions :
           \A r \in RoutesOf(d) :
               /\ BitIn(RouteDef[r].mask, c.mRoutes[d].enabled) <=> c.route[r].used
               /\ BitIn(RouteDef[r].mask, c.mRoutes[d].needRepath)
                      <=> (c.route[r].used /\ c.route[r].needRepath)

\* a state from which a cycle leaves one output route used and needing a
\* repath, in routesToDisable, and another output route needing a repath
\* without a stream, out of routesToDisable though disableRoutes unroutes it
C17_Witness ==
    LET c == CycleResult(Current) IN
    /\ {1, 2} \subseteq Registered
    /\ c.route[1].used /\ c.route[1].needRepath /\ InRoutesToDisable(1, c.mRoutes)
    /\ ~c.route[2].used /\ c.route[2].needRepath /\ ~InRoutesToDisable(2, c.mRoutes)
    /\ UnrouteCalled(1, c.route) /\ UnrouteCalled(2, c.route)

\* every need bit of the masks m is an enabled bit
NeedWithinEnabled(m) ==
    /\ BitAndNot(m.needReflow, m.enabled) = 0
    /\ BitAndNot(m.needRepath, m.enabled) = 0

\* C18: in every reachable state, and in the state a cycle leads to from
\* it, for each direction needReflowRouteMask(dir) and
\* needRepathRouteMask(dir) are subsets of enabledRouteMask(dir); a bit a
\* cycle records in needReflow or needRepath is the bit of a registered
\* route that obtained a stream in that cycle and raises the request.
C18_NeedWithinEnabled ==
    LET c == CycleResult(Current) IN
    \A d \in Directions :
        /\ BitAndNot(needReflowRouteMask(d), enabledRouteMask(d)) = 0
        /\ BitAndNot(needRepathRouteMask(d), enabledRouteMask(d)) = 0
        /\ NeedWithinEnabled(c.mRoutes[d])
        /\ \A bit \in {1, 2, 4} :
               /\ BitIn(bit, c.mRoutes[d].needReflow) =>
                      \E r \in RoutesOf(d) :
                          /\ RouteDef[r].mask = bit
                          /\ SetStreamCallsOn(c.calls, r) # {}
                          /\ c.route[r].needReflow
               /\ BitIn(bit, c.mRoutes[d].needRepath) =>
                      \E r \in RoutesOf(d) :
                          /\ RouteDef[r].mask = bit
                          /\ SetStreamCallsOn(c.calls, r) # {}
                          /\ c.route[r].needRepath

\* prepareRouting has matched an output route that asks for a reflow and
\* has found no stream for another one that asks for a reflow and a repath
C18_Witness ==
    /\ {1, 2} \subseteq Registered
    /\ calls = << << "setStream", 1, 2 >> >>
    /\ route[1].needReflow /\ route[2].needReflow /\ route[2].needRepath
    /\ enabledRouteMask(Output) = 1
    /\ needReflowRouteMask(Output) = 1
    /\ needRepathRouteMask(Output) = 0

\* the positions of the calls of setStream with stream s in the calls cs
SetStreamCallsWith(cs, s) == {i \in 1 .. Len(cs) : cs[i][1] = "setStream" /\ cs[i][3] = s}

\* no stream is given to two routes by the pass whose result is pr, and a
\* stream the pass gave to a route reports a new route available
OneRoutePerStream(pr) ==
    \A s \in StreamIds :
        /\ Cardinality(SetStreamCallsWith(pr.calls, s)) <= 1
        /\ SetStreamCallsWith(pr.calls, s) # {} => pr.stream[s].newRouteAvailable

\* C19: one prepareRouting pass, run from any reachable state or as the
\* second half of a cycle, attaches no stream to two different routes: the
\* stream a route's setStream took reports isNewRouteAvailable and every
\* later route of the pass skips it, even a route it matches.
C19_OneRoutePerStream ==
    /\ OneRoutePerStream(PrepareRoutingResult(registry, mOrderedStreamList,
                                              route, stream, mRoutes))
    /\ OneRoutePerStream(CycleResult(Current))

\* a pass has given stream 1 to route 1 and nothing to route 2, which comes
\* later in the registry and which stream 1, started and routed by the
\* policy, matches too
C19_Witness ==
    /\ {1, 2} \subseteq Registered
    /\ calls = << << "setStream", 1, 1 >> >>
    /\ IsMatchingWithStream(2, 1)
    /\ stream[1].started /\ stream[1].routedByPolicy /\ stream[1].newRouteAvailable
    /\ ~route[2].used
    /\ InList(1)

\* the masks m2 have every bit of the masks m1 in enabled, needReflow and
\* needRepath, and the same previouslyEnabled
GainsBits(m1, m2) ==
    /\ BitAndNot(m1.enabled, m2.enabled) = 0
    /\ BitAndNot(m1.needReflow, m2.needReflow) = 0
    /\ BitAndNot(m1.needRepath, m2.needRepath) = 0
    /\ m2.prevEnabled = m1.prevEnabled

\* the registry without the routes of the other directions than d
RegistryOf(d) ==
    [k \in Keys |-> IF registry[k] # NoRoute /\ DirOf(RouteDef[registry[k]].isOut) = d
                    THEN registry[k] ELSE NoRoute]

\* C20: when prepareRouting handles a route of one direction, it scans the
\* stream list of that direction only (the list of the other direction has
\* no part in the outcome, and the stream it takes is of that list), the
\* enabled / needReflow / needRepath masks of that direction only gain bits
\* and the four mask fields of the other direction stay as they are; so
\* the masks a whole pass leaves for a direction are those the pass leaves
\* with the routes of that direction alone, whatever mask bits the routes
\* of the other direction carry.
C20_DirectionIsolation ==
    LET acc == [route |-> route, stream |-> stream, mRoutes |-> mRoutes, calls |-> << >>] IN
    /\ \A r \in Registered :
           LET d == DirOf(RouteDef[r].isOut)
               res == PrepareRoute(r, mOrderedStreamList, acc)
               alone == PrepareRoute(r, [mOrderedStreamList EXCEPT ![1 - d] = << >>], acc)
           IN  /\ res = alone
               /\ \A i \in 1 .. Len(res.calls) :
                      \E j \in 1 .. Len(mOrderedStreamList[d]) :
                          res.calls[i] = << "setStream", r, mOrderedStreamList[d][j] >>
               /\ res.mRoutes[1 - d] = mRoutes[1 - d]
               /\ GainsBits(mRoutes[d], res.mRoutes[d])
               /\ res.calls # << >> => BitIn(RouteDef[r].mask, res.mRoutes[d].enabled)
    /\ \A d \in Directions :
           PrepareRoutingResult(registry, mOrderedStreamList, route, stream, mRoutes).mRoutes[d]
               = PrepareRoutingResult(RegistryOf(d), mOrderedStreamList,
                                      route, stream, mRoutes).mRoutes[d]

\* prepareRouting has matched the input route of mask 1 while the output
\* route of mask 1 is registered and has no stream: the bit is in the
\* enabled mask of the input direction alone
C20_Witness ==
    /\ {1, 3} \subseteq Registered
    /\ RouteDef[1].mask = RouteDef[3].mask
    /\ calls = << << "setStream", 3, 3 >> >>
    /\ enabledRouteMask(Input) = 1
    /\ enabledRouteMask(Output) = 0
    /\ mOrderedStreamList[Output] # << >>

====
